---- MODULE Spec2Model ----
(***************************************************************************)
(* State-machine model of the two gRPC streaming servers of the            *)
(* repository:                                                             *)
(*                                                                         *)
(*   grpc-stream/rust-server          acknowledged delivery with timed     *)
(*                                    retry (message_sender, retry_handler,*)
(*                                    ack_handler, cleanup task)           *)
(*   grpc-stream-cancel/rust-server   MessageGenerator, GrpcContext and    *)
(*                                    the cancellation-aware session       *)
(*                                    (message_sender, message_receiver,   *)
(*                                    cancellation_monitor, cleanup task)  *)
(*                                                                         *)
(* Every tokio task is a process with a program counter; one action is one *)
(* run of a task between two await points.  A critical section of the      *)
(* pending-table mutex holds no await, so it is one action.  A local       *)
(* variable is reset when it goes out of scope.                            *)
(*                                                                         *)
(* Time is SystemTime in whole seconds.  Timestamps are written relative   *)
(* to the present: `now` is 0, a timestamp of k seconds ago is -k, and a   *)
(* tick of the clock moves every stored timestamp one second into the      *)
(* past.  A timestamp older than Horizon is kept as -Horizon: the code     *)
(* only compares differences of timestamps with the retry timeout, and a   *)
(* record that old exceeds it against every clock sample a task can hold.  *)
(***************************************************************************)
EXTENDS Integers, Sequences, FiniteSets, TLC

(***************************************************************************)
(* Bounds of the model.                                                    *)
(***************************************************************************)
\* total_messages of the retry server (command line, default 10), scaled down
MaxMessages == 2
\* capacity of the retry server's mpsc channel (128 in the source), scaled down
ChannelCap == 1
\* the longest a task that sampled the clock waits (whole seconds) for the
\* pending-table lock
MaxLag == 1
\* max_messages of the cancel server's generator (10 in the source), scaled down
max_messages == 3
\* capacity of the cancel server's mpsc channel (10 in the source), scaled down
CancelChannelCap == 2
\* the seconds of a proxied connection's life the model follows
MaxElapsed == 12

(***************************************************************************)
(* Program constants of grpc-stream/rust-server.                           *)
(***************************************************************************)
\* `msg.retry_count < 3`
RetryCeiling == 3
\* `current_time - msg.sent_at > 2`
RetryTimeout == 2
\* `tokio::time::interval(Duration::from_secs(2))`
RetryInterval == 2
\* `tokio::time::sleep(Duration::from_secs(1))`
SendInterval == 1

(***************************************************************************)
(* Program constants of grpc-stream-cancel/rust-proxy.                     *)
(***************************************************************************)
\* `elapsed >= 5`
BlockStart == 5
\* `elapsed < 10`
BlockEnd == 10

\* ---- grpc-stream/rust-server ------------------------------------------
VARIABLES
    overflowChecks,   \* build profile: TRUE = overflow checks on (debug)
    pending_messages, \* HashMap<u64, PendingMessage>: id -> [sent_at, retry_count]
    tx,               \* the mpsc channel's buffer: ids of the queued messages
    rxAlive,          \* the channel's Receiver (held by the transport) exists
    sPc, message_id, sTime, sWake,               \* message_sender
    rPc, rTime, rDeadline, to_retry, all_completed, \* retry_handler
    aPc,              \* ack_handler
    cPc               \* the cleanup task

streamVars == <<overflowChecks, pending_messages, tx, rxAlive,
                sPc, message_id, sTime, sWake,
                rPc, rTime, rDeadline, to_retry, all_completed,
                aPc, cPc>>

\* ---- grpc-stream-cancel/rust-server -----------------------------------
VARIABLES
    next_id,             \* MessageGenerator.next_id
    cancellation_reason, \* GrpcContext.cancellation_reason (NoReason = None)
    cancellation_token,  \* the CancellationToken is cancelled
    cancel_tx,           \* the session's mpsc channel buffer (message ids)
    cancel_rx_alive,     \* the channel's Receiver exists
    msPc, message,       \* message_sender and the message it holds
    mrPc, stream_end,    \* message_receiver and how its stream ended
    cmPc, monitor_reason,\* cancellation_monitor and the reason it read
    ctPc,                \* the cleanup task
    \* ---- history variables of the generator ---------------------------
    generated,           \* messages generate_next has returned
    exhausted            \* generate_next has returned None

cancelVars == <<next_id, cancellation_reason, cancellation_token, cancel_tx,
                cancel_rx_alive, msPc, message, mrPc, stream_end, cmPc,
                monitor_reason, ctPc, generated, exhausted>>

\* ---- a second session on the same server ------------------------------
VARIABLES
    message_id2,         \* retry server: message_sender's loop variable
    ms2Pc, message2      \* cancel server: message_sender and its message

session2Vars == <<message_id2, ms2Pc, message2>>

\* ---- grpc-stream-cancel/rust-proxy: one relayed connection ------------
VARIABLES
    elapsed,             \* start_time.elapsed().as_secs()
    is_blocked,          \* NetworkProxy.is_blocked
    relayPc,             \* where each of the two forwarding loops is
    relayOpen            \* handle_client still holds the two connections

proxyVars == <<elapsed, is_blocked, relayPc, relayOpen>>

(***************************************************************************)
(* The tokio Mutex around the retry server's pending table, for the        *)
(* specification that takes the lock and runs the critical section in      *)
(* separate steps.                                                         *)
(***************************************************************************)
VARIABLES
    lock,           \* "free", or the task whose MutexGuard is alive
    ack_pending     \* the ack_id the ack handler has read and not yet removed, 0 if none
lockVars == <<lock, ack_pending>>

\* ---- history of the modelled cancel-server session -----------------------
VARIABLES
    enqueued        \* ids whose `tx_sender.send(..)` returned Ok in message_sender
historyVars == <<enqueued>>

\* what the tasks of the modelled retry-server session do not touch
outsideStream == <<cancelVars, session2Vars, proxyVars, lockVars, historyVars>>
\* what the tasks of the modelled cancel-server session do not touch
outsideCancel == <<streamVars, session2Vars, proxyVars, lockVars, historyVars>>
\* what the proxy does not touch
outsideProxy == <<streamVars, cancelVars, session2Vars, lockVars, historyVars>>

vars == <<streamVars, cancelVars, session2Vars, proxyVars, lockVars, historyVars>>

Ids == 1..MaxMessages
\* ids a peer may acknowledge: those of the session and one it never got
AckIds == 1..(MaxMessages + 1)

(***************************************************************************)
(* Pure helpers.                                                           *)
(***************************************************************************)
\* `SystemTime::now().duration_since(UNIX_EPOCH).unwrap().as_secs()`, the
\* origin of the model's time scale
now == 0

\* timestamps older than this are kept as -Horizon
Horizon == MaxLag + RetryTimeout + 1

\* a stored timestamp after one more second has passed
Aged(t) == IF t - 1 < 0 - Horizon THEN 0 - Horizon ELSE t - 1

\* the u64 subtraction `current_time - msg.sent_at` underflows
Underflows(rec, current_time) == current_time < rec.sent_at

\* `current_time - msg.sent_at > 2` on u64 seconds.  Without overflow checks an
\* underflowing subtraction wraps to 2^64 - (sent_at - current_time), which is
\* above the timeout for every distance below 2^64 - 2; with overflow checks
\* the scan panics before the comparison (see retry_scan).
ElapsedExceedsTimeout(rec, current_time) ==
    IF Underflows(rec, current_time)
    THEN TRUE
    ELSE current_time - rec.sent_at > RetryTimeout

\* IsDue with `||` written for `&&`
IsDue_Or(rec, current_time) ==
    \/ ElapsedExceedsTimeout(rec, current_time)
    \/ rec.retry_count < RetryCeiling

\* the scan's test `current_time - msg.sent_at > 2 && msg.retry_count < 3`
IsDue(rec, current_time) ==
    /\ ElapsedExceedsTimeout(rec, current_time)
    /\ rec.retry_count < RetryCeiling

\* the record after `msg.retry_count += 1; msg.sent_at = current_time`
Bump(rec, current_time) ==
    [sent_at |-> current_time, retry_count |-> rec.retry_count + 1]

\* the table after the scan loop has visited the records `visited`
ScanTable(table, visited, current_time) ==
    [id \in DOMAIN table |->
        IF id \in visited /\ IsDue(table[id], current_time)
        THEN Bump(table[id], current_time)
        ELSE table[id]]

\* the ids the scan loop pushes on to_retry when it visits `visited`
DueIds(table, visited, current_time) ==
    {id \in visited : IsDue(table[id], current_time)}

\* `pending.iter().all(|(_, msg)| msg.retry_count >= 3) || pending.is_empty()`
AllCompleted(table) ==
    \/ \A id \in DOMAIN table : table[id].retry_count >= RetryCeiling
    \/ DOMAIN table = {}

\* `pending.insert(message_id, pending_msg)`: HashMap::insert replaces
\* an insert that stores nothing
Insert_Nothing(table, id, rec) == table

Insert(table, id, rec) ==
    [k \in DOMAIN table \cup {id} |-> IF k = id THEN rec ELSE table[k]]

\* Remove as a cumulative acknowledgment: drops every id up to the acked one
Remove_UpTo(table, id) == [k \in {j \in DOMAIN table : j > id} |-> table[k]]

\* `pending.remove(&ack.ack_id)`
Remove(table, id) == [k \in DOMAIN table \ {id} |-> table[k]]

\* all orders in which a HashMap iteration can yield the ids of S
RECURSIVE Orders(_)
Orders(S) ==
    IF S = {} THEN {<<>>}
    ELSE UNION {{<<x>> \o o : o \in Orders(S \ {x})} : x \in S}

\* a channel whose send never waits
CanSend_Always == TRUE

\* the channel: a send is ready when the buffer has room or the Receiver is gone
CanSend == Len(tx) < ChannelCap \/ ~rxAlive

(***************************************************************************)
(* Initial state: bidirectional_stream has spawned its four tasks.         *)
(***************************************************************************)
StreamInit ==
    /\ overflowChecks \in BOOLEAN
    /\ pending_messages = <<>>
    /\ tx = <<>>
    /\ rxAlive = TRUE
    /\ sPc = "start" /\ message_id = 0 /\ sTime = 0 /\ sWake = 0
    /\ rPc = "tick" /\ rTime = 0 /\ rDeadline = 0
    /\ to_retry = <<>> /\ all_completed = FALSE
    /\ aPc = "recv"
    /\ cPc = "await_tasks"

senderVars == <<sPc, message_id, sTime, sWake>>
retryVars == <<rPc, rTime, rDeadline, to_retry, all_completed>>

(***************************************************************************)
(* message_sender: `for message_id in 1..=total_messages`.                 *)
(***************************************************************************)
\* the loop takes its next id (at the start, or when the sleep has elapsed)
\* and samples the clock; past the last id the task ends
sender_iterate ==
    /\ \/ sPc = "start"
       \/ sPc = "sleep" /\ now >= sWake
    /\ IF message_id < MaxMessages
       THEN /\ message_id' = message_id + 1
            /\ sTime' = now
            /\ sPc' = "insert"
       ELSE /\ sPc' = "done"
            /\ UNCHANGED <<message_id, sTime>>
    /\ sWake' = 0
    /\ UNCHANGED <<overflowChecks, pending_messages, tx, rxAlive,
                   retryVars, aPc, cPc>>
    /\ UNCHANGED outsideStream

\* `{ let mut pending = ...lock().await; pending.insert(message_id, pending_msg); }`
sender_insert_section ==
    /\ sPc = "insert"
    /\ pending_messages' =
           Insert(pending_messages, message_id,
                  [sent_at |-> sTime, retry_count |-> 0])
    /\ sPc' = "send"
    /\ sTime' = 0
    /\ UNCHANGED <<message_id, sWake, overflowChecks, tx, rxAlive,
                   retryVars, aPc, cPc>>

sender_insert ==
    /\ sender_insert_section
    /\ UNCHANGED outsideStream

\* `tx_clone.send(Ok(stream_msg)).await`: waits for room, fails once the
\* Receiver is gone (break); then `sleep(1 s)`
sender_send ==
    /\ sPc = "send"
    /\ CanSend
    /\ IF rxAlive
       THEN /\ tx' = Append(tx, message_id)
            /\ sWake' = now + SendInterval
            /\ sPc' = "sleep"
       ELSE /\ sPc' = "done"
            /\ UNCHANGED <<tx, sWake>>
    /\ UNCHANGED <<message_id, sTime, overflowChecks, pending_messages,
                   rxAlive, retryVars, aPc, cPc>>
    /\ UNCHANGED outsideStream

(***************************************************************************)
(* retry_handler.                                                          *)
(***************************************************************************)
RetryTerminal == {"done", "send_failed", "panicked"}

\* `retry_interval.tick().await` completes at its deadline (the first at once,
\* then every 2 s of the schedule); the task samples the clock
retry_tick ==
    /\ rPc = "tick"
    /\ now >= rDeadline
    /\ rTime' = now
    /\ rDeadline' = rDeadline + RetryInterval
    /\ rPc' = "scan"
    /\ UNCHANGED <<to_retry, all_completed, overflowChecks,
                   pending_messages, tx, rxAlive, senderVars, aPc, cPc>>
    /\ UNCHANGED outsideStream

\* where the task goes when the `for (id, data_msg) in to_retry` loop is over
AfterBatch(completed) == IF completed THEN "done" ELSE "tick"

\* the critical section: the scan of the table and the all_completed test.
\* A record sent after the task sampled the clock makes the subtraction
\* underflow: with overflow checks the task panics there, having visited any
\* of the other records first (HashMap order); without, the value wraps.
retry_scan_section ==
    /\ rPc = "scan"
    /\ LET under == {id \in DOMAIN pending_messages :
                        Underflows(pending_messages[id], rTime)}
       IN  IF overflowChecks /\ under # {}
           THEN \E visited \in SUBSET (DOMAIN pending_messages \ under) :
                   /\ pending_messages' =
                          ScanTable(pending_messages, visited, rTime)
                   /\ rPc' = "panicked"
                   /\ UNCHANGED <<to_retry, all_completed>>
           ELSE LET all == DOMAIN pending_messages
                    after == ScanTable(pending_messages, all, rTime)
                IN  /\ pending_messages' = after
                    /\ to_retry' \in Orders(DueIds(pending_messages, all, rTime))
                    /\ LET completed == AllCompleted(after)
                       IN  IF to_retry' = <<>>
                           THEN /\ rPc' = AfterBatch(completed)
                                /\ all_completed' = FALSE
                           ELSE /\ rPc' = "send"
                                /\ all_completed' = completed
    /\ rTime' = 0
    /\ rDeadline' = IF rPc' \in RetryTerminal THEN 0 ELSE rDeadline
    /\ UNCHANGED <<overflowChecks, tx, rxAlive,
                   senderVars, aPc, cPc>>

retry_scan ==
    /\ retry_scan_section
    /\ UNCHANGED outsideStream

\* `tx_retry.send(Ok(stream_msg)).await` of the batch's next message; a failed
\* send returns from the task
retry_send ==
    /\ rPc = "send"
    /\ CanSend
    /\ IF rxAlive
       THEN /\ tx' = Append(tx, Head(to_retry))
            /\ to_retry' = Tail(to_retry)
            /\ IF to_retry' = <<>>
               THEN /\ rPc' = AfterBatch(all_completed)
                    /\ all_completed' = FALSE
               ELSE /\ rPc' = "send"
                    /\ UNCHANGED all_completed
       ELSE /\ rPc' = "send_failed"
            /\ to_retry' = <<>>
            /\ all_completed' = FALSE
            /\ UNCHANGED tx
    /\ rDeadline' = IF rPc' \in RetryTerminal THEN 0 ELSE rDeadline
    /\ UNCHANGED <<rTime, overflowChecks,
                   pending_messages, rxAlive, senderVars, aPc, cPc>>
    /\ UNCHANGED outsideStream

(***************************************************************************)
(* ack_handler: `while let Some(message) = in_stream.next().await`.        *)
(***************************************************************************)
\* an Ack arrives: `pending.remove(&ack.ack_id)`
ack_receive(ack_id) ==
    /\ aPc = "recv"
    /\ pending_messages' = Remove(pending_messages, ack_id)
    /\ UNCHANGED <<overflowChecks, tx, rxAlive, senderVars, retryVars,
                   aPc, cPc>>
    /\ UNCHANGED outsideStream

\* how the task can have ended: the stream ended, or yielded an error
AckTerminal == {"done", "failed"}

\* `Err(e) => { println!(...); break; }`: the peer reported an error
ack_stream_error ==
    /\ aPc = "recv"
    /\ aPc' = "failed"
    /\ UNCHANGED <<overflowChecks, pending_messages, tx, rxAlive,
                   senderVars, retryVars, cPc>>
    /\ UNCHANGED outsideStream

\* the stream ends (None)
ack_stream_ends ==
    /\ aPc = "recv"
    /\ aPc' = "done"
    /\ UNCHANGED <<overflowChecks, pending_messages, tx, rxAlive,
                   senderVars, retryVars, cPc>>
    /\ UNCHANGED outsideStream

(***************************************************************************)
(* The cleanup task.                                                       *)
(***************************************************************************)
\* `let _ = message_sender.await; let _ = retry_handler.await; drop(tx);`
cleanup_drop_tx ==
    /\ cPc = "await_tasks"
    /\ sPc = "done"
    /\ rPc \in RetryTerminal
    /\ cPc' = "await_ack"
    /\ UNCHANGED <<overflowChecks, pending_messages, tx, rxAlive,
                   senderVars, retryVars, aPc>>
    /\ UNCHANGED outsideStream

\* `let _ = ack_handler.await;`
cleanup_await_ack ==
    /\ cPc = "await_ack"
    /\ aPc \in AckTerminal
    /\ cPc' = "closed"
    /\ UNCHANGED <<overflowChecks, pending_messages, tx, rxAlive,
                   senderVars, retryVars, aPc>>
    /\ UNCHANGED outsideStream

\* every Sender of the channel is dropped: the outbound queue is closed
TxClosed == cPc \in {"await_ack", "closed"}

(***************************************************************************)
(* The environment: the clock, the transport, the peer.                    *)
(***************************************************************************)
\* a record is past its retry window at time t
PastWindow(rec, t) == t - rec.sent_at > RetryTimeout

clock_tick ==
    /\ sPc = "insert" => sTime > 0 - MaxLag
    /\ rPc = "scan" => rTime > 0 - MaxLag
    /\ pending_messages' =
           [id \in DOMAIN pending_messages |->
               [pending_messages[id] EXCEPT !.sent_at = Aged(@)]]
    /\ sTime' = IF sPc = "insert" THEN Aged(sTime) ELSE sTime
    /\ sWake' = IF sPc = "sleep" THEN Aged(sWake) ELSE sWake
    /\ rTime' = IF rPc = "scan" THEN Aged(rTime) ELSE rTime
    /\ rDeadline' = IF rPc \in RetryTerminal THEN rDeadline
                                              ELSE Aged(rDeadline)
    /\ UNCHANGED <<overflowChecks, tx, rxAlive, sPc, message_id,
                   rPc, to_retry, all_completed, aPc, cPc>>
    /\ UNCHANGED outsideStream

\* a tick of the clock in a session whose peer acknowledges every message
\* before its retry window has elapsed: no record of the table is past it
clock_tick_timely ==
    /\ clock_tick
    /\ \A id \in DOMAIN pending_messages' :
          ~PastWindow(pending_messages'[id], now)

\* the transport takes the next message of the response stream
transport_receive ==
    /\ rxAlive
    /\ tx # <<>>
    /\ tx' = Tail(tx)
    /\ UNCHANGED <<overflowChecks, pending_messages, rxAlive, senderVars,
                   retryVars, aPc, cPc>>
    /\ UNCHANGED outsideStream

\* the peer is gone: the transport drops the Receiver and what it buffers
transport_drop ==
    /\ rxAlive
    /\ rxAlive' = FALSE
    /\ tx' = <<>>
    /\ UNCHANGED <<overflowChecks, pending_messages, senderVars,
                   retryVars, aPc, cPc>>
    /\ UNCHANGED outsideStream

(***************************************************************************)
(* A second session of the retry server.  bidirectional_stream gives it    *)
(* `self.pending_messages.clone()`, the server's one table, and its        *)
(* message_sender numbers its messages from 1.  Only that task's inserts   *)
(* are modelled; the clock sample it stores is up to MaxLag old.           *)
(***************************************************************************)
stream_session2_insert ==
    /\ message_id2 < MaxMessages
    /\ message_id2' = message_id2 + 1
    /\ \E lag \in 0..MaxLag :
          pending_messages' =
              Insert(pending_messages, message_id2',
                     [sent_at |-> now - lag, retry_count |-> 0])
    /\ UNCHANGED <<overflowChecks, tx, rxAlive, senderVars, retryVars,
                   aPc, cPc>>
    /\ UNCHANGED <<cancelVars, ms2Pc, message2, proxyVars, lockVars, historyVars>>

StreamNext ==
    \/ sender_iterate
    \/ sender_insert
    \/ sender_send
    \/ retry_tick
    \/ retry_scan
    \/ retry_send
    \/ \E ack_id \in AckIds : ack_receive(ack_id)
    \/ ack_stream_ends
    \/ ack_stream_error
    \/ cleanup_drop_tx
    \/ cleanup_await_ack
    \/ clock_tick
    \/ transport_receive
    \/ transport_drop

(***************************************************************************)
(* grpc-stream-cancel/rust-server.                                         *)
(***************************************************************************)
NoReason == "None"
ReasonCompleted == "All messages sent - normal completion"
ReasonDisconnected == "Network disconnection detected"

\* the gRPC status codes message_receiver tells apart, and two of the others
StatusCodes ==
    {"Cancelled", "Unavailable", "DeadlineExceeded", "Internal", "Unknown"}

\* `let cancel_reason = match status.code() { ... }`
ReasonOfStatus(code) ==
    CASE code = "Cancelled" ->
            "gRPC standard cancellation - client called cancel()"
      [] code = "Unavailable" ->
            "gRPC unavailable - likely network disconnection"
      [] code = "DeadlineExceeded" ->
            "gRPC deadline exceeded - timeout"
      [] OTHER -> "gRPC error: " \o code

Min(a, b) == IF a <= b THEN a ELSE b

\* NextId that leaves the counter where it is
NextId_Same(id) == id

\* `*next_id += 1`
NextId(id) == id + 1

\* generate_next's test with `>=` written for `>`
GeneratorExhausted_Ge(id) == id >= max_messages

\* `if *next_id > self.max_messages { return None; }`
GeneratorExhausted(id) == id > max_messages

\* get_progress: `((*next_id - 1).min(self.max_messages), self.max_messages)`
get_progress == <<Min(next_id - 1, max_messages), max_messages>>

\* GrpcContext::is_cancelled
is_cancelled == cancellation_token

\* cancelled() that completes only for a completion
cancelled_Completed ==
    cancellation_token /\ cancellation_reason = ReasonCompleted

\* GrpcContext::cancelled: `self.cancellation_token.cancelled().await` is
\* ready whenever the token is cancelled, before or after the wait began
cancelled == cancellation_token

\* a cancel that leaves the reason as it was
SetReason_Skip(reason) == cancellation_reason' = cancellation_reason

\* the first half of GrpcContext::cancel:
\* `*self.cancellation_reason.lock().await = Some(reason)`
SetReason(reason) == cancellation_reason' = reason

\* a send on the session's channel is ready
CancelCanSend == Len(cancel_tx) < CancelChannelCap \/ ~cancel_rx_alive

CancelInit ==
    /\ next_id = 1
    /\ cancellation_reason = NoReason
    /\ cancellation_token = FALSE
    /\ cancel_tx = <<>>
    /\ cancel_rx_alive = TRUE
    /\ msPc = "check" /\ message = 0
    /\ mrPc = "recv" /\ stream_end = "open"
    /\ cmPc = "wait" /\ monitor_reason = NoReason
    /\ ctPc = "join"
    /\ generated = 0
    /\ exhausted = FALSE

(***************************************************************************)
(* message_sender of the cancel server.                                    *)
(***************************************************************************)
\* `if context_sender.is_cancelled() { ...; break; }`
cancel_sender_check ==
    /\ msPc = "check"
    /\ msPc' = IF is_cancelled THEN "done" ELSE "generate"
    /\ UNCHANGED <<next_id, cancellation_reason, cancellation_token,
                   cancel_tx, cancel_rx_alive, message, mrPc, stream_end,
                   cmPc, monitor_reason, ctPc, generated, exhausted>>
    /\ UNCHANGED outsideCancel

\* `generator.generate_next().await`: the next message, or None
cancel_sender_generate ==
    /\ msPc = "generate"
    /\ IF GeneratorExhausted(next_id)
       THEN /\ exhausted' = TRUE
            /\ msPc' = "cancel_completed"
            /\ UNCHANGED <<next_id, message, generated>>
       ELSE /\ message' = next_id
            /\ next_id' = NextId(next_id)
            /\ generated' = generated + 1
            /\ msPc' = "send"
            /\ UNCHANGED exhausted
    /\ UNCHANGED <<cancellation_reason, cancellation_token, cancel_tx,
                   cancel_rx_alive, mrPc, stream_end, cmPc, monitor_reason,
                   ctPc>>
    /\ UNCHANGED outsideCancel

\* `context_sender.cancel("All messages sent - normal completion")`, first half
cancel_sender_completed_reason ==
    /\ msPc = "cancel_completed"
    /\ SetReason(ReasonCompleted)
    /\ msPc' = "flip"
    /\ UNCHANGED <<next_id, cancellation_token, cancel_tx, cancel_rx_alive,
                   message, mrPc, stream_end, cmPc, monitor_reason, ctPc,
                   generated, exhausted>>
    /\ UNCHANGED outsideCancel

\* `self.cancellation_token.cancel()` of the sender's cancel, then `break`
cancel_sender_flip ==
    /\ msPc = "flip"
    /\ cancellation_token' = TRUE
    /\ msPc' = "done"
    /\ UNCHANGED <<next_id, cancellation_reason, cancel_tx, cancel_rx_alive,
                   message, mrPc, stream_end, cmPc, monitor_reason, ctPc,
                   generated, exhausted>>
    /\ UNCHANGED outsideCancel

\* `tokio::select!` of the send: the send succeeds
cancel_sender_send_ok ==
    /\ msPc = "send"
    /\ cancel_rx_alive
    /\ Len(cancel_tx) < CancelChannelCap
    /\ cancel_tx' = Append(cancel_tx, message)
    /\ enqueued' = enqueued \cup {message}
    /\ message' = 0
    /\ msPc' = "sleep"
    /\ UNCHANGED <<next_id, cancellation_reason, cancellation_token,
                   cancel_rx_alive, mrPc, stream_end, cmPc, monitor_reason,
                   ctPc, generated, exhausted>>
    /\ UNCHANGED <<streamVars, session2Vars, proxyVars, lockVars>>

\* the send fails (the Receiver is gone):
\* `context_sender.cancel("Network disconnection detected")`, first half
cancel_sender_send_err ==
    /\ msPc = "send"
    /\ ~cancel_rx_alive
    /\ SetReason(ReasonDisconnected)
    /\ message' = 0
    /\ msPc' = "flip"
    /\ UNCHANGED <<next_id, cancellation_token, cancel_tx, cancel_rx_alive,
                   mrPc, stream_end, cmPc, monitor_reason, ctPc, generated,
                   exhausted>>
    /\ UNCHANGED outsideCancel

\* `_ = context_sender.cancelled() => break` in either select
cancel_sender_cancelled ==
    /\ msPc \in {"send", "sleep"}
    /\ cancelled
    /\ message' = 0
    /\ msPc' = "done"
    /\ UNCHANGED <<next_id, cancellation_reason, cancellation_token,
                   cancel_tx, cancel_rx_alive, mrPc, stream_end, cmPc,
                   monitor_reason, ctPc, generated, exhausted>>
    /\ UNCHANGED outsideCancel

\* `tokio::time::sleep(message_interval)` elapses
cancel_sender_wake ==
    /\ msPc = "sleep"
    /\ msPc' = "check"
    /\ UNCHANGED <<next_id, cancellation_reason, cancellation_token,
                   cancel_tx, cancel_rx_alive, message, mrPc, stream_end,
                   cmPc, monitor_reason, ctPc, generated, exhausted>>
    /\ UNCHANGED outsideCancel

(***************************************************************************)
(* message_receiver: `while let Some(r) = in_stream.next().await`.         *)
(***************************************************************************)
\* `Ok(data_msg)`: logged
cancel_receiver_data ==
    /\ mrPc = "recv"
    /\ UNCHANGED outsideStream
    /\ UNCHANGED outsideCancel

\* `Err(status)`: `context_receiver.cancel(cancel_reason)`, first half
cancel_receiver_error(code) ==
    /\ mrPc = "recv"
    /\ SetReason(ReasonOfStatus(code))
    /\ stream_end' = "error"
    /\ mrPc' = "flip"
    /\ UNCHANGED <<next_id, cancellation_token, cancel_tx, cancel_rx_alive,
                   msPc, message, cmPc, monitor_reason, ctPc, generated,
                   exhausted>>
    /\ UNCHANGED outsideCancel

\* `self.cancellation_token.cancel()` of the receiver's cancel, then `break`
cancel_receiver_flip ==
    /\ mrPc = "flip"
    /\ cancellation_token' = TRUE
    /\ mrPc' = "done"
    /\ UNCHANGED <<next_id, cancellation_reason, cancel_tx, cancel_rx_alive,
                   msPc, message, stream_end, cmPc, monitor_reason, ctPc,
                   generated, exhausted>>
    /\ UNCHANGED outsideCancel

\* cancel_receiver_end with the cancel the source leaves commented out
cancel_receiver_end_cancels ==
    /\ mrPc = "recv"
    /\ SetReason("Client stream ended")
    /\ stream_end' = "half_close"
    /\ mrPc' = "flip"
    /\ UNCHANGED <<next_id, cancellation_token, cancel_tx, cancel_rx_alive,
                   msPc, message, cmPc, monitor_reason, ctPc, generated,
                   exhausted>>
    /\ UNCHANGED outsideCancel

\* `None`: the peer half-closed; the loop ends and nothing is cancelled
cancel_receiver_end ==
    /\ mrPc = "recv"
    /\ stream_end' = "half_close"
    /\ mrPc' = "done"
    /\ UNCHANGED <<next_id, cancellation_reason, cancellation_token,
                   cancel_tx, cancel_rx_alive, msPc, message, cmPc,
                   monitor_reason, ctPc, generated, exhausted>>
    /\ UNCHANGED outsideCancel

(***************************************************************************)
(* cancellation_monitor and the cleanup task.                              *)
(***************************************************************************)
\* `context_monitor.cancelled().await; get_cancellation_reason().await`
cancel_monitor_wake ==
    /\ cmPc = "wait"
    /\ cancelled
    /\ monitor_reason' = cancellation_reason
    /\ cmPc' = "done"
    /\ UNCHANGED <<next_id, cancellation_reason, cancellation_token,
                   cancel_tx, cancel_rx_alive, msPc, message, mrPc,
                   stream_end, ctPc, generated, exhausted>>
    /\ UNCHANGED outsideCancel

\* `tokio::join!(message_sender, message_receiver, cancellation_monitor);
\*  drop(tx);`
cancel_cleanup_join ==
    /\ ctPc = "join"
    /\ msPc = "done"
    /\ mrPc = "done"
    /\ cmPc = "done"
    /\ ctPc' = "closed"
    /\ UNCHANGED <<next_id, cancellation_reason, cancellation_token,
                   cancel_tx, cancel_rx_alive, msPc, message, mrPc,
                   stream_end, cmPc, monitor_reason, generated, exhausted>>
    /\ UNCHANGED outsideCancel

(***************************************************************************)
(* The transport of the cancel server.                                     *)
(***************************************************************************)
cancel_transport_receive ==
    /\ cancel_rx_alive
    /\ cancel_tx # <<>>
    /\ cancel_tx' = Tail(cancel_tx)
    /\ UNCHANGED <<next_id, cancellation_reason, cancellation_token,
                   cancel_rx_alive, msPc, message, mrPc, stream_end, cmPc,
                   monitor_reason, ctPc, generated, exhausted>>
    /\ UNCHANGED outsideCancel

cancel_transport_drop ==
    /\ cancel_rx_alive
    /\ cancel_rx_alive' = FALSE
    /\ cancel_tx' = <<>>
    /\ UNCHANGED <<next_id, cancellation_reason, cancellation_token, msPc,
                   message, mrPc, stream_end, cmPc, monitor_reason, ctPc,
                   generated, exhausted>>
    /\ UNCHANGED outsideCancel

(***************************************************************************)
(* A second session of the cancel server.  bidirectional_stream gives it   *)
(* `self.message_generator.clone()`, whose next_id is the server's Arc;    *)
(* its context and its channel are its own.  Only the calls its            *)
(* message_sender makes on the generator are modelled: it ends when        *)
(* generate_next returns None.                                             *)
(***************************************************************************)
cancel_session2_generate ==
    /\ ms2Pc \in {"start", "loop"}
    /\ IF GeneratorExhausted(next_id)
       THEN /\ ms2Pc' = "done"
            /\ message2' = 0
            /\ UNCHANGED <<next_id, generated>>
       ELSE /\ message2' = next_id
            /\ next_id' = NextId(next_id)
            /\ generated' = generated + 1
            /\ ms2Pc' = "loop"
    /\ UNCHANGED <<cancellation_reason, cancellation_token, cancel_tx,
                   cancel_rx_alive, msPc, message, mrPc, stream_end, cmPc,
                   monitor_reason, ctPc, exhausted, message_id2>>
    /\ UNCHANGED <<streamVars, proxyVars, lockVars, historyVars>>

\* a step of one of the session's own tasks
CancelServerStep ==
    \/ cancel_sender_check
    \/ cancel_sender_generate
    \/ cancel_sender_completed_reason
    \/ cancel_sender_flip
    \/ cancel_sender_send_ok
    \/ cancel_sender_send_err
    \/ cancel_sender_cancelled
    \/ cancel_sender_wake
    \/ cancel_receiver_flip
    \/ cancel_monitor_wake
    \/ cancel_cleanup_join

CancelNext ==
    \/ cancel_sender_check
    \/ cancel_sender_generate
    \/ cancel_sender_completed_reason
    \/ cancel_sender_flip
    \/ cancel_sender_send_ok
    \/ cancel_sender_send_err
    \/ cancel_sender_cancelled
    \/ cancel_sender_wake
    \/ cancel_receiver_data
    \/ \E code \in StatusCodes : cancel_receiver_error(code)
    \/ cancel_receiver_flip
    \/ cancel_receiver_end
    \/ cancel_monitor_wake
    \/ cancel_cleanup_join
    \/ cancel_transport_receive
    \/ cancel_transport_drop

\* the session is closed: every task has ended and the cleanup task has
\* dropped the last Sender of the channel
CancelClosed == ctPc = "closed"

(***************************************************************************)
(* grpc-stream-cancel/rust-proxy: NetworkProxy::handle_client for one      *)
(* accepted client.  Each direction is a loop: ask should_block; if it     *)
(* says so sleep 100 ms and ask again, else await a read and write what    *)
(* was read to the other side.                                             *)
(***************************************************************************)
Dirs == {"client_to_server", "server_to_client"}

\* should_block's result: `elapsed >= 5 && elapsed < 10`
should_block == BlockStart <= elapsed /\ elapsed < BlockEnd

\* is_blocked after a call of should_block
is_blocked_after ==
    IF should_block THEN TRUE
    ELSE IF is_blocked /\ elapsed >= BlockEnd THEN FALSE
    ELSE is_blocked

ProxyInit ==
    /\ elapsed = 0
    /\ is_blocked = FALSE
    /\ relayPc = [d \in Dirs |-> "check"]
    /\ relayOpen = TRUE

\* `if proxy.lock().unwrap().should_block() { sleep(..).await; continue; }`
\* and, when not blocked, the start of `read(&mut buffer).await`
proxy_check(d) ==
    /\ relayOpen
    /\ relayPc[d] = "check"
    /\ is_blocked' = is_blocked_after
    /\ relayPc' = [relayPc EXCEPT ![d] = IF should_block THEN "sleep"
                                                         ELSE "read"]
    /\ UNCHANGED <<elapsed, relayOpen>>
    /\ UNCHANGED outsideProxy

\* the 100 ms sleep is over
proxy_wake(d) ==
    /\ relayOpen
    /\ relayPc[d] = "sleep"
    /\ relayPc' = [relayPc EXCEPT ![d] = "check"]
    /\ UNCHANGED <<elapsed, is_blocked, relayOpen>>
    /\ UNCHANGED outsideProxy

\* the pending read returns `Ok(n)` and write_all forwards the n bytes
proxy_forward(d) ==
    /\ relayOpen
    /\ relayPc[d] = "read"
    /\ relayPc' = [relayPc EXCEPT ![d] = "check"]
    /\ UNCHANGED <<elapsed, is_blocked, relayOpen>>
    /\ UNCHANGED outsideProxy

\* the pending read returns `Ok(0)` or an error, or the write fails: the loop
\* breaks, `select!` returns and handle_client drops both connections
proxy_break(d) ==
    /\ relayOpen
    /\ relayPc[d] = "read"
    /\ relayPc' = [e \in Dirs |-> "done"]
    /\ relayOpen' = FALSE
    /\ UNCHANGED <<elapsed, is_blocked>>
    /\ UNCHANGED outsideProxy

\* a second passes
proxy_clock_tick ==
    /\ elapsed < MaxElapsed
    /\ elapsed' = elapsed + 1
    /\ UNCHANGED <<is_blocked, relayPc, relayOpen>>
    /\ UNCHANGED outsideProxy

ProxyNext ==
    \/ \E d \in Dirs : proxy_check(d)
    \/ \E d \in Dirs : proxy_wake(d)
    \/ \E d \in Dirs : proxy_forward(d)
    \/ \E d \in Dirs : proxy_break(d)
    \/ proxy_clock_tick

\* a session whose peer never acknowledges
StreamNextNoAck ==
    \/ sender_iterate
    \/ sender_insert
    \/ sender_send
    \/ retry_tick
    \/ retry_scan
    \/ retry_send
    \/ ack_stream_ends
    \/ ack_stream_error
    \/ cleanup_drop_tx
    \/ cleanup_await_ack
    \/ clock_tick
    \/ transport_receive
    \/ transport_drop

(***************************************************************************)
(* Specifications.                                                         *)
(***************************************************************************)
\* a session whose peer acknowledges every message within its retry window
\* (the send loop inserts within MaxLag <= RetryTimeout of its clock sample)
StreamNextTimely ==
    \/ sender_iterate
    \/ sender_insert
    \/ sender_send
    \/ retry_tick
    \/ retry_scan
    \/ retry_send
    \/ \E ack_id \in AckIds : ack_receive(ack_id)
    \/ ack_stream_ends
    \/ ack_stream_error
    \/ cleanup_drop_tx
    \/ cleanup_await_ack
    \/ clock_tick_timely
    \/ transport_receive
    \/ transport_drop

\* no second session has started
Session2Init ==
    /\ message_id2 = 0
    /\ ms2Pc = "start"
    /\ message2 = 0

\* two sessions on the retry server's table while both streams stay open and
\* the peers send nothing
StreamNextSharedTable ==
    \/ sender_iterate
    \/ sender_insert
    \/ sender_send
    \/ retry_tick
    \/ retry_scan
    \/ retry_send
    \/ clock_tick
    \/ transport_receive
    \/ stream_session2_insert

LockInit ==
    /\ lock = "free"
    /\ ack_pending = 0

HistoryInit == enqueued = {}

Init ==
    StreamInit /\ CancelInit /\ Session2Init /\ ProxyInit /\ LockInit /\ HistoryInit

\* the retry server
Next == StreamNext

Spec == Init /\ [][Next]_vars

\* the retry server with a peer that never acknowledges
SpecNoAck == Init /\ [][StreamNextNoAck]_vars

\* the retry server with a second session
SpecSharedTable == Init /\ [][StreamNextSharedTable]_vars

\* the retry server with a peer that acknowledges in time
SpecTimely == Init /\ [][StreamNextTimely]_vars

\* the cancel server with two sessions on its generator
CancelNextTwoSessions ==
    \/ CancelNext
    \/ cancel_session2_generate

SpecTwoSessions == Init /\ [][CancelNextTwoSessions]_vars

\* the proxy
SpecProxy == Init /\ [][ProxyNext]_vars

\* the cancel server
SpecCancel == Init /\ [][CancelNext]_vars

\* the cancel server under the tokio scheduler: a task that can run does run.
\* Nothing is assumed of the peer or the transport.
FairSpecCancel ==
    /\ SpecCancel
    /\ WF_vars(cancel_sender_check)
    /\ WF_vars(cancel_sender_generate)
    /\ WF_vars(cancel_sender_completed_reason)
    /\ WF_vars(cancel_sender_flip)
    /\ WF_vars(cancel_sender_send_err)
    /\ WF_vars(cancel_sender_cancelled)
    /\ WF_vars(cancel_sender_wake)
    /\ WF_vars(cancel_receiver_flip)
    /\ WF_vars(cancel_monitor_wake)
    /\ WF_vars(cancel_cleanup_join)

(***************************************************************************)
(* Properties of the retry server.                                         *)
(***************************************************************************)
\* the send loop has emitted every message of the session
SenderEmittedAll ==
    /\ message_id = MaxMessages
    /\ sPc \in {"sleep", "done"}

\* every record of the table is at the retry ceiling
AllAtCeiling ==
    \A id \in DOMAIN pending_messages :
        pending_messages[id].retry_count = RetryCeiling

\* C1 (at-least-once delivery), for a peer that never acknowledges and an
\* outbound queue that stays open: the retry scheduler has not stopped while
\* a message is still to be emitted or a record is still below the retry
\* ceiling.
C1_RetryOutlivesUnsettled ==
    (rPc = "done" /\ rxAlive) => (SenderEmittedAll /\ AllAtCeiling)

\* C2: no record of the pending table has a retry_count above the ceiling.
C2_RetryCountBounded ==
    \A id \in DOMAIN pending_messages :
        pending_messages[id].retry_count <= RetryCeiling

\* a scan has taken a record to the ceiling and the scheduler scans again
C2_Witness ==
    /\ \E id \in DOMAIN pending_messages :
          pending_messages[id].retry_count = RetryCeiling
    /\ rPc = "scan"

\* C5: processing Ack(k) removes exactly the record of k, if there is one,
\* changes no other record, and processing the same Ack again changes nothing.
C5_AckRemovesOnlyItsRecord ==
    [][\A k \in AckIds :
          ack_receive(k) =>
              /\ DOMAIN pending_messages' = DOMAIN pending_messages \ {k}
              /\ \A j \in DOMAIN pending_messages' :
                     pending_messages'[j] = pending_messages[j]
              /\ Remove(pending_messages', k) = pending_messages']_vars

\* both messages were inserted, the Ack of message 1 was processed, the record
\* of message 2 is still there
C5_Witness ==
    /\ message_id = 2
    /\ sPc # "insert"
    /\ DOMAIN pending_messages = {2}

\* C7, for a peer that never acknowledges and an outbound queue that stays
\* open: when the retry scheduler has ended normally and the cleanup task has
\* closed the queue, the records of all the session's messages are in the
\* table and at the retry ceiling.
C7_CloseOnlyAtCeiling ==
    (TxClosed /\ rxAlive /\ rPc = "done") =>
        (DOMAIN pending_messages = Ids /\ AllAtCeiling)

\* the retry scheduler enqueues a message of its batch
RetryEnqueues == rPc = "send" /\ tx' = Append(tx, Head(to_retry))

\* C8, for a peer that acknowledges every message before its retry window
\* has elapsed: the retry scheduler re-enqueues nothing.
C8_NoRetryWhenAckedInTime == [][~RetryEnqueues]_vars

(***************************************************************************)
(* Properties of the cancel server.                                        *)
(***************************************************************************)
\* C3: once a cancellation reason is recorded, no later cancel changes it.
C3_ReasonSetOnce ==
    [][cancellation_reason # NoReason =>
          cancellation_reason' = cancellation_reason]_vars

\* the send loop and the receive loop have both ended
CancelLoopsDone == msPc = "done" /\ mrPc = "done"

\* C4: once the session is cancelled, the send loop and the receive loop end
\* on their own: either both have ended or a task of the session can take a
\* step without the peer or the transport doing anything.
C4_CancelEndsLoops ==
    cancellation_token => (CancelLoopsDone \/ ENABLED CancelServerStep)

\* C6: get_progress returns (emitted, total) with 0 <= emitted <= total,
\* emitted the number of messages generate_next has returned, and
\* emitted = total once generate_next has reported exhaustion.
C6_ProgressConsistent ==
    LET emitted == get_progress[1]
        total == get_progress[2]
    IN  /\ 0 <= emitted
        /\ emitted <= total
        /\ total = max_messages
        /\ emitted = generated
        /\ exhausted => emitted = total

\* generate_next has returned every message and then reported exhaustion
C6_Witness == exhausted /\ generated = max_messages

\* C9: once the generator is exhausted and the session is cancelled with the
\* completion reason, the session closes on its own: it is closed or a task of
\* the session can take a step.
C9_CompletedReachesClosed ==
    (exhausted /\ cancellation_token /\ cancellation_reason = ReasonCompleted)
        => (CancelClosed \/ ENABLED CancelServerStep)

\* C10: the receive loop ends on a half-close without touching the
\* cancellation context or the send loop, and a session cancelled after a
\* half-close reaches Closed.
C10_HalfCloseKeepsSession ==
    /\ [][(stream_end = "open" /\ stream_end' = "half_close") =>
             /\ mrPc' = "done"
             /\ UNCHANGED <<cancellation_token, cancellation_reason>>
             /\ UNCHANGED <<msPc, message, next_id>>]_vars
    /\ [](stream_end = "half_close" => mrPc = "done")
    /\ (stream_end = "half_close" /\ cancellation_token) ~> CancelClosed

\* the peer half-closed, the send loop went on generating, and the session
\* closed after the send loop's cancel
C10_Witness ==
    /\ stream_end = "half_close"
    /\ generated = max_messages
    /\ cancellation_reason = ReasonCompleted
    /\ CancelClosed

(***************************************************************************)
(* Shutdown of a session.                                                  *)
(***************************************************************************)
\* C11: the outbound queue is closed only after the send loop, the retry
\* scheduler and the receive loop have all terminated, and the session is
\* closed only after the queue is closed.
C11_ShutdownOrder ==
    /\ TxClosed => (sPc = "done" /\ rPc \in RetryTerminal /\ aPc \in AckTerminal)
    /\ cPc = "closed" => TxClosed

(***************************************************************************)
(* Errors reported by the peer.                                            *)
(***************************************************************************)
\* C12: when the receive loop has terminated on an error reported by the
\* peer, cancel has been called on the session's cancellation context, and
\* the reason it was called with tells the error classes apart.
C12_PeerErrorCancels ==
    /\ aPc = "failed" => cancellation_token
    /\ (mrPc = "done" /\ stream_end = "error") => cancellation_token
    /\ \A c1, c2 \in StatusCodes :
          c1 # c2 => ReasonOfStatus(c1) # ReasonOfStatus(c2)

(***************************************************************************)
(* Two sessions on one server.                                             *)
(***************************************************************************)
\* C13: a session owns its generator: whatever the other session on the
\* server has done, the first id a session emits is 1.
C13_SessionsAreIndependent ==
    [][(cancel_session2_generate /\ ms2Pc = "start" /\ ms2Pc' = "loop")
          => message2' = 1]_vars

(***************************************************************************)
(* The retry batch and the pending table.                                  *)
(***************************************************************************)
\* C14: the batch a tick of the retry scheduler re-enqueues is in strictly
\* ascending order of message id.
C14_RetryBatchAscending ==
    \A i, j \in 1..Len(to_retry) : i < j => to_retry[i] < to_retry[j]

\* C15: an insert of an id that has a record in the table leaves the table
\* as it is; an insert of a new id adds a record with retry_count 0 and the
\* sender's timestamp, and changes no other record.
C15_InsertKeepsExisting ==
    [][/\ (stream_session2_insert /\ message_id2' \in DOMAIN pending_messages)
            => pending_messages' = pending_messages
       /\ (sender_insert /\ message_id \in DOMAIN pending_messages)
            => pending_messages' = pending_messages
       /\ (sender_insert /\ message_id \notin DOMAIN pending_messages)
            => /\ DOMAIN pending_messages' =
                      DOMAIN pending_messages \cup {message_id}
               /\ pending_messages'[message_id] =
                      [sent_at |-> sTime, retry_count |-> 0]
               /\ \A id \in DOMAIN pending_messages :
                      pending_messages'[id] = pending_messages[id]]_vars

(***************************************************************************)
(* The generator under two callers.                                        *)
(***************************************************************************)
\* C16: whichever of the tasks sharing the generator calls generate_next, the
\* k-th message returned has id k (so the ids come out as 1, 2, ..., N, each
\* once), and a call reports exhaustion exactly when N messages have been
\* returned.
C16_GeneratorSequence ==
    /\ [](generated <= max_messages)
    /\ [][/\ (cancel_sender_generate /\ msPc' = "send")
               => message' = generated + 1
          /\ (cancel_session2_generate /\ ms2Pc' = "loop")
               => message2' = generated + 1
          /\ cancel_sender_generate
               => (msPc' = "cancel_completed" <=> generated = max_messages)
          /\ cancel_session2_generate
               => (ms2Pc' = "done" <=> generated = max_messages)]_vars

\* the two sessions' calls interleave: the second session holds id 2 when the
\* first is handed the last id
C16_Witness ==
    /\ message2 = 2
    /\ message = max_messages
    /\ msPc = "send"

(***************************************************************************)
(* Waiting for the cancellation.                                           *)
(***************************************************************************)
\* C17: once the token is cancelled, a task that waits in cancelled() (the
\* send loop in its send or sleep race, the cancellation monitor) can leave
\* the wait, whether it began to wait before or after the cancel, and the
\* send loop and the monitor both end.
C17_NoMissedWakeup ==
    /\ [](cancellation_token /\ msPc \in {"send", "sleep"}
             => ENABLED cancel_sender_cancelled)
    /\ [](cancellation_token /\ cmPc = "wait" => ENABLED cancel_monitor_wake)
    /\ cancellation_token ~> (msPc = "done" /\ cmPc = "done")

\* the receive loop cancelled the session after the send loop had passed its
\* is_cancelled test and generated its first message; the send loop left its
\* send race without sending, and the monitor was woken
C17_Witness ==
    /\ mrPc = "done"
    /\ stream_end = "error"
    /\ generated = 1
    /\ Len(cancel_tx) = 0
    /\ cancel_rx_alive
    /\ msPc = "done"
    /\ cmPc = "done"
    /\ cancellation_reason # ReasonCompleted
    /\ cancellation_reason # ReasonDisconnected

C19_ProxyBlocksInWindow ==
    [][should_block =>
          /\ \A d \in Dirs : ~proxy_forward(d)
          /\ relayOpen => relayOpen']_vars

(***************************************************************************)
(* Termination of the retry scheduler.                                     *)
(***************************************************************************)
\* C20: the retry scheduler terminates at a tick exactly when the scan of
\* that tick left the table empty or every record at the ceiling (after the
\* batch of the tick is sent), or when a send of the batch fails because the
\* queue's Receiver is gone; it terminates in no other way.
C20_RetryTerminatesOnlySettled ==
    [][/\ (rPc \notin RetryTerminal /\ rPc' \in RetryTerminal) =>
             \/ /\ rPc = "scan" /\ rPc' = "done"
                /\ to_retry' = <<>>
                /\ AllCompleted(pending_messages')
             \/ rPc = "send" /\ rPc' = "done" /\ all_completed /\ rxAlive
             \/ rPc = "send" /\ rPc' = "send_failed" /\ ~rxAlive
       /\ (rPc = "scan" /\ rPc' = "tick") => ~AllCompleted(pending_messages')
       /\ (rPc = "scan" /\ rPc' = "send")
             => (all_completed' <=> AllCompleted(pending_messages'))
       /\ (rPc = "send" /\ rPc' = "tick") => ~all_completed]_vars

(***************************************************************************)
(* The scan of the pending table.                                          *)
(***************************************************************************)
\* the ids of a sequence
Range(s) == {s[i] : i \in DOMAIN s}

\* C21: a scan at the scheduler's time selects exactly the records whose age
\* (the scheduler's time minus last_sent_at, as a number) is above the
\* timeout and whose retry_count is below the ceiling; a selected record
\* gets retry_count + 1 and last_sent_at = the scheduler's time, every other
\* record stays as it is, and no record is added or removed.
C21_ScanSelectsExactlyDue ==
    [][retry_scan =>
          LET due == {id \in DOMAIN pending_messages :
                         /\ rTime - pending_messages[id].sent_at > RetryTimeout
                         /\ pending_messages[id].retry_count < RetryCeiling}
          IN  /\ DOMAIN pending_messages' = DOMAIN pending_messages
              /\ \A id \in DOMAIN pending_messages :
                    pending_messages'[id] =
                        IF id \in due
                        THEN [sent_at |-> rTime,
                              retry_count |->
                                  pending_messages[id].retry_count + 1]
                        ELSE pending_messages[id]
              /\ Range(to_retry') = due]_vars

\* C22: a record whose retry_count has reached the ceiling keeps its
\* retry_count and its last_sent_at (timestamps are relative to the present,
\* so only the passing of time moves it), is never selected by a scan again,
\* and leaves the table only by an acknowledgment for its id.
C22_CeilingIsTerminal ==
    [][\A id \in DOMAIN pending_messages :
          pending_messages[id].retry_count = RetryCeiling =>
             /\ id \in DOMAIN pending_messages' =>
                   /\ pending_messages'[id].retry_count = RetryCeiling
                   /\ ~clock_tick => pending_messages'[id].sent_at =
                                         pending_messages[id].sent_at
             /\ id \notin DOMAIN pending_messages' => ack_receive(id)
             /\ retry_scan => id \notin Range(to_retry')]_vars

\* C23: at every comparison of the retry scan the scheduler's clock sample is
\* at or after the record's last_sent_at, so the unsigned subtraction
\* current_time - sent_at does not underflow.
C23_NowNotBeforeSentAt ==
    [][retry_scan =>
          \A id \in DOMAIN pending_messages :
             rTime >= pending_messages[id].sent_at]_vars

\* C24: the scheduler never re-enqueues a message whose acknowledgment has
\* already been processed: every re-sent id still has its record in the
\* pending table at the moment it is put on the outbound queue.
C24_NoResendAfterAck ==
    [][RetryEnqueues => Head(to_retry) \in DOMAIN pending_messages]_vars

\* C25: retry_count counts successful re-enqueues.  The scan increments the
\* count of every id it puts in the batch, so the counts agree with the
\* re-enqueues only if every entry of a batch leaves it by being appended to
\* the outbound queue, also when the queue closes during the batch.
C25_CountedMeansEnqueued ==
    [][(to_retry # <<>> /\ to_retry' # to_retry) =>
          /\ to_retry' = Tail(to_retry)
          /\ tx' = Append(tx, Head(to_retry))]_vars

\* the ids whose `pending.insert(message_id, pending_msg)` the send loop has
\* executed: all ids up to its loop variable, but not the current one while
\* the loop is still between the top of the iteration and the insert
Inserted ==
    IF sPc = "insert" THEN 1..(message_id - 1) ELSE 1..message_id

\* C26: the send loop inserts the record of message k before it enqueues
\* message k: every id on the outbound queue has had its record inserted, and
\* an id becomes inserted only by the step that puts its record in the table.
C26_InsertBeforeEnqueue ==
    /\ [](\A k \in Range(tx) : k \in Inserted)
    /\ [][Inserted' # Inserted =>
             /\ Inserted' = Inserted \cup {message_id}
             /\ message_id \in DOMAIN pending_messages'
             /\ message_id \notin Range(tx)]_vars

\* message k is on the outbound queue, put there by the send loop, and its
\* record is in the table
C26_Witness ==
    /\ sPc = "sleep"
    /\ tx # <<>>
    /\ tx[Len(tx)] = message_id
    /\ message_id \in DOMAIN pending_messages

(***************************************************************************)
(* The retry server with the table lock taken, used and released in        *)
(* separate steps.  A MutexGuard lives to the end of the block it is       *)
(* declared in: main.rs:68-71 (message_sender), 103-119 (retry_handler),   *)
(* 146-151 (ack_handler).                                                  *)
(***************************************************************************)
\* a send loop whose guard is not dropped at the end of the insert
lock_sender_insert_keeps ==
    /\ lock = "sender"
    /\ sender_insert_section
    /\ UNCHANGED <<lock, ack_pending>>
    /\ UNCHANGED <<cancelVars, session2Vars, proxyVars, historyVars>>

\* `pending_messages_sender.lock().await` returns the guard
lock_sender_acquire ==
    /\ sPc = "insert"
    /\ lock = "free"
    /\ lock' = "sender"
    /\ UNCHANGED <<streamVars, ack_pending>>
    /\ UNCHANGED <<cancelVars, session2Vars, proxyVars, historyVars>>

\* `pending.insert(message_id, pending_msg); }`
lock_sender_insert ==
    /\ lock = "sender"
    /\ sender_insert_section
    /\ lock' = "free"
    /\ UNCHANGED ack_pending
    /\ UNCHANGED <<cancelVars, session2Vars, proxyVars, historyVars>>

\* `pending_messages_retry.lock().await` returns the guard
lock_retry_acquire ==
    /\ rPc = "scan"
    /\ lock = "free"
    /\ lock' = "retry"
    /\ UNCHANGED <<streamVars, ack_pending>>
    /\ UNCHANGED <<cancelVars, session2Vars, proxyVars, historyVars>>

\* the scan; the guard is dropped at the end of the block, or by the unwinding
\* of a panic
lock_retry_scan ==
    /\ lock = "retry"
    /\ retry_scan_section
    /\ lock' = "free"
    /\ UNCHANGED ack_pending
    /\ UNCHANGED <<cancelVars, session2Vars, proxyVars, historyVars>>

\* `in_stream.next().await` yields Ok(Ack(ack_id))
lock_ack_read(ack_id) ==
    /\ aPc = "recv"
    /\ ack_pending = 0
    /\ ack_pending' = ack_id
    /\ UNCHANGED <<streamVars, lock>>
    /\ UNCHANGED <<cancelVars, session2Vars, proxyVars, historyVars>>

\* `pending_messages_ack.lock().await` returns the guard
lock_ack_acquire ==
    /\ ack_pending # 0
    /\ lock = "free"
    /\ lock' = "ack"
    /\ UNCHANGED <<streamVars, ack_pending>>
    /\ UNCHANGED <<cancelVars, session2Vars, proxyVars, historyVars>>

\* `pending.remove(&ack.ack_id); }`
lock_ack_remove ==
    /\ lock = "ack"
    /\ pending_messages' = Remove(pending_messages, ack_pending)
    /\ ack_pending' = 0
    /\ lock' = "free"
    /\ UNCHANGED <<overflowChecks, tx, rxAlive, senderVars, retryVars,
                   aPc, cPc>>
    /\ UNCHANGED <<cancelVars, session2Vars, proxyVars, historyVars>>

StreamNextLock ==
    \/ sender_iterate
    \/ lock_sender_acquire
    \/ lock_sender_insert
    \/ sender_send
    \/ retry_tick
    \/ lock_retry_acquire
    \/ lock_retry_scan
    \/ retry_send
    \/ \E ack_id \in AckIds : lock_ack_read(ack_id)
    \/ lock_ack_acquire
    \/ lock_ack_remove
    \/ clock_tick
    \/ transport_receive

SpecLock == Init /\ [][StreamNextLock]_vars

\* C27: no task holds the pending-table lock while it is blocked on an
\* outbound-queue send or on the inbound stream: the holder of the lock is
\* always inside its own critical section, and the step that ends the section
\* and releases the lock is enabled whatever the state of the queue, so the
\* ack handler can always get the lock when the queue is full.
C27_LockNotHeldWhileBlocked ==
    /\ lock = "sender" => sPc = "insert" /\ ENABLED lock_sender_insert
    /\ lock = "retry" => rPc = "scan" /\ ENABLED lock_retry_scan
    /\ lock = "ack" => ack_pending # 0 /\ ENABLED lock_ack_remove
    /\ (ack_pending # 0 /\ lock = "free") => ENABLED lock_ack_acquire

\* the queue is full with the send loop and the retry scheduler both waiting
\* for room, and the ack handler holds the lock
C27_Witness ==
    /\ rxAlive /\ Len(tx) = ChannelCap
    /\ sPc = "send"
    /\ rPc = "send"
    /\ lock = "ack"

\* C28: whenever is_cancelled() is true a cancellation reason is recorded
\* (cancel stores the reason before it flips the token), and the reason the
\* cancellation monitor read after observing the cancellation is not absent.
C28_CancelledHasReason ==
    /\ is_cancelled => cancellation_reason # NoReason
    /\ cmPc = "done" => monitor_reason # NoReason

\* the monitor has observed the cancellation and read the reason of a
\* normal completion
C28_Witness ==
    /\ is_cancelled
    /\ cmPc = "done"
    /\ monitor_reason = ReasonCompleted

\* C29: when a session's send loop cancels with the normal-completion
\* reason, every message id 1..total has been successfully enqueued on that
\* session's outbound queue.
C29_CompletionMeansAllEnqueued ==
    [][cancel_sender_completed_reason => enqueued = 1..max_messages]_vars
====
